---- MODULE Spec2Model ----
(***************************************************************************)
(* The touchpad numpad driver of src/main.py as a state machine.           *)
(*                                                                         *)
(* process_events is split at every sink call (key sink, grab sink,        *)
(* lighting sink): a termination signal is handled between two statements  *)
(* of the interrupted code, so each sink call is one step and the signal   *)
(* may be delivered between any two steps.  A step that is enabled is the  *)
(* only step of the program that is enabled; the environment chooses the   *)
(* next event, whether a sink call fails, and when the signal arrives.     *)
(***************************************************************************)
EXTENDS Integers, Sequences, FiniteSets, TLC

VARIABLES
    model_layout,     \* the layout table loaded by initialize_model
    percentage_key,   \* setup_virtual_keyboard: KEY_5 or the argv[2] override
    numlock,          \* global numlock
    button_pressed,   \* global button_pressed (None when no key is active)
    x, y,             \* global x, y
    pc,               \* the statement the program is about to execute
    caller,           \* who called deactivate_numlock: process_events or cleanup
    ctx,              \* "try": inside the try block of process_events; "finally"
    inHandler,        \* the running cleanup() is the signal handler's
    signalled,        \* a termination signal has been delivered
    held,             \* keys currently down on the virtual keyboard (udev)
    grabbed,          \* the touchpad is grabbed by d_t
    light,            \* the numpad lighting as last commanded with success
    closed,           \* fd_t and fd_k have been closed
    out,              \* the sink calls made since the last event was taken
    failed,           \* the sinks of which a call has failed so far
    ev,               \* the last event taken, with numlock and button_pressed before it
    nfail,            \* the number of sink calls that have failed so far
    tog,              \* numlock before each of the last two toggles
    deactRuns         \* calls of deactivate_numlock since the signal was delivered

vars == <<model_layout, percentage_key, numlock, button_pressed, x, y, pc, caller,
          ctx, inHandler, signalled, held, grabbed, light, closed, out, failed, nfail,
          ev, tog, deactRuns>>

config == <<model_layout, percentage_key>>
sinks  == <<held, grabbed, light>>
shut   == <<ctx, inHandler, signalled, closed, deactRuns>>

None == "None"

\* BRIGHT_VAL and the literal "0x00" of deactivate_numlock
BRIGHT_VAL == "0x01"
OFF_VAL    == "0x00"

KEY_NUMLOCK   == "KEY_NUMLOCK"
KEY_LEFTSHIFT == "KEY_LEFTSHIFT"
KEY_5         == "KEY_5"
calculator_key == "KEY_CALC"

\* Touchpad bounds read from the device by setup_input_devices (minx = miny = 0).
maxx == 1000
maxy == 500

\* Layout tables: cols, rows, top_offset (in tenths) and the key grid, rows of columns.
LayoutA ==
    [cols |-> 4, rows |-> 5, top_offset10 |-> 0,
     keys |-> << <<"KEY_KP7", "KEY_KP8", "KEY_KP9", "KEY_KPSLASH">>,
                 <<"KEY_KP4", "KEY_KP5", "KEY_KP6", "KEY_KPASTERISK">>,
                 <<"KEY_KP1", "KEY_KP2", "KEY_KP3", "KEY_5">>,
                 <<"KEY_KP0", "KEY_KPDOT", "KEY_KPENTER", "KEY_KPMINUS">>,
                 <<"KEY_BACKSPACE", "KEY_KPEQUAL", "KEY_KPCOMMA", "KEY_KPPLUS">> >>]

LayoutB ==
    [cols |-> 5, rows |-> 4, top_offset10 |-> 3,
     keys |-> << <<"KEY_KP7", "KEY_KP8", "KEY_KP9", "KEY_KPSLASH", "KEY_BACKSPACE">>,
                 <<"KEY_KP4", "KEY_KP5", "KEY_KP6", "KEY_KPASTERISK", "KEY_5">>,
                 <<"KEY_KP1", "KEY_KP2", "KEY_KP3", "KEY_KPMINUS", "KEY_KPENTER">>,
                 <<"KEY_KP0", "KEY_KPDOT", "KEY_KPCOMMA", "KEY_KPPLUS", "KEY_KPEQUAL">> >>]

Layouts == {LayoutA, LayoutB}

\* percentage_key: the default KEY_5, or the key code given as argv[2]
PercentageKeys == {KEY_5, "KEY_APOSTROPHE"}

\* The positions the touchpad reports in the model.
Xs == {20, 500, 960}
Ys == {20, 40, 250, 500}

\* The sink calls the environment lets fail in one run.
MaxFailures == 1

\* One call of a sink: the sink, its argument, a value (1 press/grab, 0 release/ungrab)
\* and whether the call succeeded.
Call(s, a, v, ok) == [sink |-> s, arg |-> a, val |-> v, ok |-> ok]

----------------------------------------------------------------------------
\* The zone tests and the grid formula of process_events.

\* A numlock corner tested with the height of the calculator corner.
NumlockCornerNarrow(px, py) == (100 * px > 95 * maxx) /\ (100 * py < 7 * maxy)

\* (x > 0.95 * maxx) and (y < 0.09 * maxy)
NumlockCorner(px, py) == (100 * px > 95 * maxx) /\ (100 * py < 9 * maxy)

\* A calculator corner that is never matched.
CalculatorCornerNever(px, py) == FALSE

\* (x < 0.06 * maxx) and (y < 0.07 * maxy)
CalculatorCorner(px, py) == (100 * px < 6 * maxx) /\ (100 * py < 7 * maxy)

\* The column computed with the divisor maxx instead of maxx+1.
GridColByMax(l, px) == (l.cols * px) \div maxx

\* col = math.floor(model_layout.cols * x / (maxx+1))
GridCol(l, px) == (l.cols * px) \div (maxx + 1)

\* row = math.floor((model_layout.rows * y / maxy) - model_layout.top_offset)
GridRow(l, py) == (10 * l.rows * py - l.top_offset10 * maxy) \div (10 * maxy)

\* The element a Python list subscript seq[i] names: a negative i counts from the end.
PyIndex(seq, i) == IF i >= 0 THEN i + 1 ELSE Len(seq) + i + 1

\* model_layout.keys[row][col] raises IndexError
IndexError(l, row, col) ==
    \/ PyIndex(l.keys, row) \notin 1..Len(l.keys)
    \/ PyIndex(l.keys[PyIndex(l.keys, row)], col) \notin 1..Len(l.keys[PyIndex(l.keys, row)])

\* model_layout.keys[row][col]
Lookup(l, row, col) == l.keys[PyIndex(l.keys, row)][PyIndex(l.keys[PyIndex(l.keys, row)], col)]

\* if button_pressed == EV_KEY.KEY_5: button_pressed = percentage_key
Resolve(k, pk) == IF k = KEY_5 THEN pk ELSE k

----------------------------------------------------------------------------
\* The sinks.

\* The outcomes of the next sink call.
Outcomes == IF nfail < MaxFailures THEN BOOLEAN ELSE {TRUE}

\* The failure of a sink call is logged (log.error) and recorded.
Logged(sink, ok) ==
    /\ failed' = IF ok THEN failed ELSE failed \cup {sink}
    /\ nfail' = IF ok THEN nfail ELSE nfail + 1

\* send_key_event: udev.send_events([event, sync]); an OSError is logged and swallowed
send_key_event(key, is_pressed, ok) ==
    /\ out' = Append(out, Call("key", key, IF is_pressed THEN 1 ELSE 0, ok))
    /\ held' = IF ok THEN (IF is_pressed THEN held \cup {key} ELSE held \ {key}) ELSE held
    /\ Logged("key", ok)

\* send_i2c_command: subprocess.call(i2ctransfer ...); an exception is logged and swallowed
send_i2c_command(brightness_value, ok) ==
    /\ out' = Append(out, Call("i2c", brightness_value, 0, ok))
    /\ light' = IF ok THEN (IF brightness_value = BRIGHT_VAL THEN "on" ELSE "off") ELSE light
    /\ Logged("i2c", ok)

----------------------------------------------------------------------------
Init ==
    /\ model_layout \in Layouts
    /\ percentage_key \in PercentageKeys
    /\ numlock = FALSE
    /\ button_pressed = None
    /\ x = 0
    /\ y = 0
    /\ pc = "loop"
    /\ caller = "process_events"
    /\ ctx = "try"
    /\ inHandler = FALSE
    /\ signalled = FALSE
    /\ held = {}
    /\ grabbed = FALSE
    /\ light = "off"
    /\ closed = FALSE
    /\ out = <<>>
    /\ failed = {}
    /\ nfail = 0
    /\ ev = [kind |-> "none", nl |-> FALSE, bp |-> None]
    /\ tog = <<>>
    /\ deactRuns = 0

\* What happens next (an event, a signal, an error), with the state it happens in.
Begin(kind) ==
    /\ ev' = [kind |-> kind, nl |-> numlock, bp |-> button_pressed]
    /\ out' = <<>>

\* The event taken from d_t.events().
Take(kind) ==
    /\ pc = "loop"
    /\ Begin(kind)

\* ABS_MT_POSITION_X: x = touch_event.value
PositionX ==
    /\ Take("pos")
    /\ \E v \in Xs : x' = v
    /\ UNCHANGED <<config, numlock, button_pressed, y, pc, caller, sinks, shut, failed, nfail, tog>>

\* ABS_MT_POSITION_Y: y = touch_event.value
PositionY ==
    /\ Take("pos")
    /\ \E v \in Ys : y' = v
    /\ UNCHANGED <<config, numlock, button_pressed, x, pc, caller, sinks, shut, failed, nfail, tog>>

\* A numlock gate that is inverted: "if numlock: continue".
NumlockGateInverted == numlock

\* A debounce that never holds: the test "not button_pressed" left out.
DebouncedNever == FALSE

\* A numlock gate that is always open: "if not numlock: continue" left out.
NumlockGateOpen == FALSE

\* numlock = True instead of numlock = not numlock.
ToggledAlwaysOn == TRUE

\* A finger up that releases button_pressed without releasing SHIFT.
ReleaseFirstSkipsShift == "up_key"

\* A finger up that releases whether or not a key is active.
ActiveAlways == TRUE

\* if button_pressed: (finger up) and "not button_pressed" (finger down)
Active == button_pressed # None

\* elif touch_event.value == 1 and not button_pressed
Debounced == button_pressed # None

\* A row test that lets every row through.
NegativeRowIgnored(row) == FALSE

\* if row < 0: continue
NegativeRow(row) == row < 0

\* if not numlock: continue
NumlockGate == ~numlock

\* numlock = not numlock
Toggled == ~numlock

\* The first release of a finger up: if button_pressed == percentage_key the SHIFT
\* release comes before the release of button_pressed
ReleaseFirst == IF button_pressed = percentage_key THEN "up_shift" ELSE "up_key"

\* BTN_TOOL_FINGER with value 0: the active key, if any, is about to be released
FingerUp ==
    /\ Take("up")
    /\ pc' = IF Active THEN ReleaseFirst ELSE "loop"
    /\ UNCHANGED <<config, numlock, button_pressed, x, y, caller, sinks, shut, failed, nfail, tog>>

\* A finger up that presses SHIFT again instead of releasing it.
UpShiftPresses ==
    /\ pc = "up_shift"
    /\ \E ok \in Outcomes : send_key_event(KEY_LEFTSHIFT, TRUE, ok)
    /\ pc' = "up_key"
    /\ UNCHANGED <<config, numlock, button_pressed, x, y, caller, grabbed, light, shut, ev, tog>>

\* send_key_event(EV_KEY.KEY_LEFTSHIFT, False)
UpShift ==
    /\ pc = "up_shift"
    /\ \E ok \in Outcomes : send_key_event(KEY_LEFTSHIFT, FALSE, ok)
    /\ pc' = "up_key"
    /\ UNCHANGED <<config, numlock, button_pressed, x, y, caller, grabbed, light, shut, ev, tog>>

\* send_key_event(button_pressed, False)
UpKey ==
    /\ pc = "up_key"
    /\ \E ok \in Outcomes : send_key_event(button_pressed, FALSE, ok)
    /\ pc' = "up_clear"
    /\ UNCHANGED <<config, numlock, button_pressed, x, y, caller, grabbed, light, shut, ev, tog>>

\* A finger up that leaves button_pressed set.
UpClearKeepsKey ==
    /\ pc = "up_clear"
    /\ pc' = "loop"
    /\ UNCHANGED <<config, numlock, button_pressed, x, y, caller, sinks, shut, out, failed,
                   nfail, ev, tog>>

\* button_pressed = None
UpClear ==
    /\ pc = "up_clear"
    /\ button_pressed' = None
    /\ pc' = "loop"
    /\ UNCHANGED <<config, numlock, x, y, caller, sinks, shut, out, failed, nfail, ev, tog>>

\* BTN_TOOL_FINGER with value 1: classification of the stored (x, y)
FingerDown ==
    /\ Take("down")
    /\ LET col == GridCol(model_layout, x)
           row == GridRow(model_layout, y)
           key == Resolve(Lookup(model_layout, row, col), percentage_key)
       IN  IF Debounced
           THEN UNCHANGED <<numlock, button_pressed, pc, tog>>
           ELSE IF NumlockCorner(x, y)
           THEN /\ numlock' = Toggled
                /\ pc' = IF Toggled THEN "act_key" ELSE "deact_key"
                /\ tog' = IF Len(tog) < 2 THEN Append(tog, numlock) ELSE <<tog[2], numlock>>
                /\ UNCHANGED button_pressed
           ELSE IF CalculatorCorner(x, y)
           THEN /\ pc' = IF ~numlock THEN "calc_press" ELSE "loop"
                /\ UNCHANGED <<numlock, button_pressed, tog>>
           ELSE IF NumlockGate \/ NegativeRow(row) \/ IndexError(model_layout, row, col)
           THEN UNCHANGED <<numlock, button_pressed, pc, tog>>
           ELSE /\ button_pressed' = key
                /\ pc' = IF key = percentage_key THEN "press_shift" ELSE "press_key"
                /\ UNCHANGED <<numlock, tog>>
    /\ UNCHANGED <<config, x, y, caller, sinks, shut, failed, nfail>>

\* send_key_event(EV_KEY.KEY_LEFTSHIFT, True)
PressShift ==
    /\ pc = "press_shift"
    /\ \E ok \in Outcomes : send_key_event(KEY_LEFTSHIFT, TRUE, ok)
    /\ pc' = "press_key"
    /\ UNCHANGED <<config, numlock, button_pressed, x, y, caller, grabbed, light, shut, ev, tog>>

\* send_key_event(button_pressed, True)
PressKey ==
    /\ pc = "press_key"
    /\ \E ok \in Outcomes : send_key_event(button_pressed, TRUE, ok)
    /\ pc' = "loop"
    /\ UNCHANGED <<config, numlock, button_pressed, x, y, caller, grabbed, light, shut, ev, tog>>

\* launch_calculator: send_key_event(calculator_key, True)
CalcPress ==
    /\ pc = "calc_press"
    /\ \E ok \in Outcomes : send_key_event(calculator_key, TRUE, ok)
    /\ pc' = "calc_release"
    /\ UNCHANGED <<config, numlock, button_pressed, x, y, caller, grabbed, light, shut, ev, tog>>

\* launch_calculator: send_key_event(calculator_key, False)
CalcRelease ==
    /\ pc = "calc_release"
    /\ \E ok \in Outcomes : send_key_event(calculator_key, FALSE, ok)
    /\ pc' = "loop"
    /\ UNCHANGED <<config, numlock, button_pressed, x, y, caller, grabbed, light, shut, ev, tog>>

----------------------------------------------------------------------------
\* activate_numlock and deactivate_numlock, one step per sink call.

\* activate_numlock: send_key_event(EV_KEY.KEY_NUMLOCK, True)
ActivateKey ==
    /\ pc = "act_key"
    /\ \E ok \in Outcomes : send_key_event(KEY_NUMLOCK, TRUE, ok)
    /\ pc' = "act_grab"
    /\ UNCHANGED <<config, numlock, button_pressed, x, y, caller, grabbed, light, shut, ev, tog>>

\* An activation that goes on to the lighting after a failed grab.
AfterGrabIgnoresFailure(ok) == "act_i2c1"

\* Where activate_numlock continues after d_t.grab(): a failed grab raises, and
\* the except clause of activate_numlock ends the function.
AfterGrab(ok) == IF ok THEN "act_i2c1" ELSE "loop"

\* activate_numlock: d_t.grab()
ActivateGrab ==
    /\ pc = "act_grab"
    /\ \E ok \in Outcomes :
          /\ out' = Append(out, Call("grab", "touchpad", 1, ok))
          /\ grabbed' = IF ok THEN TRUE ELSE grabbed
          /\ Logged("grab", ok)
          /\ pc' = AfterGrab(ok)
    /\ UNCHANGED <<config, numlock, button_pressed, x, y, caller, held, light, shut, ev, tog>>

\* A failed lighting command that raises out of activate_numlock and of the loop.
AfterLightRaises(ok, next) == IF ok THEN next ELSE "cleanup_check"

\* Where the caller continues after send_i2c_command: its exception is caught inside
\* send_i2c_command, which returns False, and the caller ignores the result.
AfterLight(ok, next) == next

\* An activation that sends the lighting-on command once.
ActivateLightOnce ==
    /\ pc = "act_i2c1"
    /\ \E ok \in Outcomes : send_i2c_command(BRIGHT_VAL, ok) /\ pc' = AfterLight(ok, "loop")
    /\ UNCHANGED <<config, numlock, button_pressed, x, y, caller, held, grabbed, shut, ev, tog>>

\* activate_numlock: send_i2c_command(BRIGHT_VAL)
ActivateLight1 ==
    /\ pc = "act_i2c1"
    /\ \E ok \in Outcomes : send_i2c_command(BRIGHT_VAL, ok) /\ pc' = AfterLight(ok, "act_i2c2")
    /\ UNCHANGED <<config, numlock, button_pressed, x, y, caller, held, grabbed, shut, ev, tog>>

\* activate_numlock: sleep(0.1); send_i2c_command(BRIGHT_VAL)
ActivateLight2 ==
    /\ pc = "act_i2c2"
    /\ \E ok \in Outcomes : send_i2c_command(BRIGHT_VAL, ok) /\ pc' = AfterLight(ok, "loop")
    /\ UNCHANGED <<config, numlock, button_pressed, x, y, caller, held, grabbed, shut, ev, tog>>

\* Where control goes when deactivate_numlock returns.
Return == IF caller = "cleanup" THEN "cleanup_close" ELSE "loop"

\* A deactivation that sends a NUMLOCK press.
DeactivatePressedWrong == TRUE

\* The key event deactivate_numlock sends: is_pressed of
\* send_key_event(EV_KEY.KEY_NUMLOCK, False)
DeactivatePressed == FALSE

\* deactivate_numlock: send_key_event(EV_KEY.KEY_NUMLOCK, False)
DeactivateKey ==
    /\ pc = "deact_key"
    /\ \E ok \in Outcomes : send_key_event(KEY_NUMLOCK, DeactivatePressed, ok)
    /\ pc' = "deact_ungrab"
    /\ UNCHANGED <<config, numlock, button_pressed, x, y, caller, grabbed, light, shut, ev, tog>>

\* deactivate_numlock: d_t.ungrab(); a failure raises and ends the function
DeactivateUngrab ==
    /\ pc = "deact_ungrab"
    /\ \E ok \in Outcomes :
          /\ out' = Append(out, Call("grab", "touchpad", 0, ok))
          /\ grabbed' = IF ok THEN FALSE ELSE grabbed
          /\ Logged("grab", ok)
          /\ pc' = IF ok THEN "deact_i2c" ELSE Return
    /\ UNCHANGED <<config, numlock, button_pressed, x, y, caller, held, light, shut, ev, tog>>

\* deactivate_numlock: send_i2c_command("0x00")
DeactivateLight ==
    /\ pc = "deact_i2c"
    /\ \E ok \in Outcomes : send_i2c_command(OFF_VAL, ok) /\ pc' = AfterLight(ok, Return)
    /\ UNCHANGED <<config, numlock, button_pressed, x, y, caller, held, grabbed, shut, ev, tog>>

----------------------------------------------------------------------------
\* Shutdown: the signal handler, the finally clause of process_events, cleanup.

\* SIGINT or SIGTERM: cleanup runs as the signal handler, at any statement
Signal ==
    /\ ~signalled
    /\ pc # "exited"
    /\ signalled' = TRUE
    /\ inHandler' = TRUE
    /\ pc' = "cleanup_check"
    /\ deactRuns' = 0
    /\ Begin("signal")
    /\ UNCHANGED <<config, numlock, button_pressed, x, y, caller, sinks, ctx, closed,
                   failed, nfail, tog>>

\* d_t.events() raises: "except Exception" logs it and the finally clause calls cleanup
EventsError ==
    /\ Take("error")
    /\ ctx' = "finally"
    /\ pc' = "cleanup_check"
    /\ UNCHANGED <<config, numlock, button_pressed, x, y, caller, sinks, inHandler, signalled,
                   closed, failed, nfail, tog, deactRuns>>

\* cleanup: if numlock: deactivate_numlock()
CleanupCheck ==
    /\ pc = "cleanup_check"
    /\ caller' = "cleanup"
    /\ pc' = IF numlock THEN "deact_key" ELSE "cleanup_close"
    /\ deactRuns' = IF numlock /\ signalled THEN deactRuns + 1 ELSE deactRuns
    /\ UNCHANGED <<config, numlock, button_pressed, x, y, sinks, ctx, inHandler, signalled,
                   closed, out, failed, nfail, ev, tog>>

\* cleanup: fd_t.close(); fd_k.close()
CleanupClose ==
    /\ pc = "cleanup_close"
    /\ closed' = TRUE
    /\ pc' = "cleanup_exit"
    /\ UNCHANGED <<config, numlock, button_pressed, x, y, caller, sinks, ctx, inHandler,
                   signalled, out, failed, nfail, ev, tog, deactRuns>>

\* cleanup: sys.exit(0).  SystemExit raised by the handler inside the try block of
\* process_events is no Exception: it reaches the finally clause, which calls
\* cleanup again.  Raised in the finally clause, it ends the process.
CleanupExit ==
    /\ pc = "cleanup_exit"
    /\ IF inHandler /\ ctx = "try"
       THEN /\ ctx' = "finally"
            /\ pc' = "cleanup_check"
       ELSE /\ ctx' = ctx
            /\ pc' = "exited"
    /\ inHandler' = FALSE
    /\ UNCHANGED <<config, numlock, button_pressed, x, y, caller, sinks, signalled, closed,
                   out, failed, nfail, ev, tog, deactRuns>>

----------------------------------------------------------------------------
Next ==
    \/ PositionX \/ PositionY
    \/ FingerUp \/ UpShift \/ UpKey \/ UpClear
    \/ FingerDown \/ PressShift \/ PressKey
    \/ CalcPress \/ CalcRelease
    \/ ActivateKey \/ ActivateGrab \/ ActivateLight1 \/ ActivateLight2
    \/ DeactivateKey \/ DeactivateUngrab \/ DeactivateLight
    \/ Signal \/ EventsError
    \/ CleanupCheck \/ CleanupClose \/ CleanupExit

Spec == Init /\ [][Next]_vars

----------------------------------------------------------------------------
\* The sink calls of `o` without their outcomes.
Sent(o) == [i \in 1..Len(o) |-> <<o[i].sink, o[i].arg, o[i].val>>]

KeyPress(k)   == <<"key", k, 1>>
KeyRelease(k) == <<"key", k, 0>>

\* The last event was a finger-down with no key active, in the numlock corner.
ToggleDone ==
    pc = "loop" /\ ev.kind = "down" /\ ev.bp = None /\ NumlockCorner(x, y)

----------------------------------------------------------------------------
\* C1: a termination signal delivered while numlock is True runs
\* deactivate_numlock exactly once between the delivery and the exit of the process.
C1_DeactivatesOnce ==
    (pc = "exited" /\ signalled /\ numlock) => deactRuns = 1

\* C2: when no sink call fails, a process ended by a termination signal never
\* exits with the touchpad still grabbed or the lighting still on.
C2_ExitsReleased ==
    (pc = "exited" /\ signalled /\ failed = {}) => (~grabbed /\ light = "off")

\* C3 as stated: every numlock transition sends a NUMLOCK press followed by a
\* NUMLOCK release, and NUMLOCK is not held down between transitions.
C3_TapPerTransition ==
    ToggleDone =>
        /\ SelectSeq(Sent(out), LAMBDA c : c[1] = "key")
              = <<KeyPress(KEY_NUMLOCK), KeyRelease(KEY_NUMLOCK)>>
        /\ ("key" \notin failed => KEY_NUMLOCK \notin held)

\* C3 as amended: an Off->On transition sends one NUMLOCK event, a press, and an
\* On->Off transition sends one NUMLOCK event, a release; while no key send has
\* failed, NUMLOCK is held down on the virtual keyboard exactly while numlock is True.
C3_PressOnReleaseOff ==
    /\ ToggleDone =>
          /\ numlock = ~ev.nl
          /\ SelectSeq(Sent(out), LAMBDA c : c[1] = "key")
                = << IF numlock THEN KeyPress(KEY_NUMLOCK) ELSE KeyRelease(KEY_NUMLOCK) >>
    /\ (pc = "loop" /\ "key" \notin failed) => (KEY_NUMLOCK \in held <=> numlock)

\* A deactivation has completed without a failure, after an activation.
C3_Witness ==
    ToggleDone /\ ~numlock /\ failed = {} /\ Len(out) = 3

\* C4 as stated: the percentage key is sent as SHIFT press, key press, key release,
\* SHIFT release.
C4_ShiftReleasedLast ==
    /\ (pc = "loop" /\ ev.kind = "down" /\ ev.bp = None /\ button_pressed = percentage_key)
          => Sent(out) = <<KeyPress(KEY_LEFTSHIFT), KeyPress(percentage_key)>>
    /\ (pc = "loop" /\ ev.kind = "up" /\ ev.bp = percentage_key)
          => Sent(out) = <<KeyRelease(percentage_key), KeyRelease(KEY_LEFTSHIFT)>>

\* C4 as amended: on the finger-down the key sink is called with SHIFT press, then
\* the press of the percentage key; on the finger-up with SHIFT release, then the
\* release of the percentage key, and nothing else.
C4_ShiftReleasedFirst ==
    /\ (pc = "loop" /\ ev.kind = "down" /\ ev.bp = None /\ button_pressed = percentage_key)
          => Sent(out) = <<KeyPress(KEY_LEFTSHIFT), KeyPress(percentage_key)>>
    /\ (pc = "loop" /\ ev.kind = "up" /\ ev.bp = percentage_key)
          => /\ Sent(out) = <<KeyRelease(KEY_LEFTSHIFT), KeyRelease(percentage_key)>>
             /\ button_pressed = None

\* The percentage key has been released by a finger-up.
C4_Witness ==
    pc = "loop" /\ ev.kind = "up" /\ ev.bp = percentage_key /\ Len(out) = 2 /\ failed = {}

\* The scenario of C5: a 4 x 5 grid with top_offset 0, bounds 1000 x 500, a
\* finger-down at (500, 250) while numlock is True and no key is active.
C5_Scenario ==
    /\ pc = "loop" /\ ev.kind = "down" /\ ev.nl /\ ev.bp = None
    /\ model_layout = LayoutA /\ maxx = 1000 /\ maxy = 500
    /\ x = 500 /\ y = 250

\* C5 as stated: the touch maps to col 2, row 2 and presses the key of that cell.
C5_CellTwoTwo ==
    C5_Scenario =>
        /\ GridCol(model_layout, x) = 2 /\ GridRow(model_layout, y) = 2
        /\ button_pressed = Resolve(model_layout.keys[2 + 1][2 + 1], percentage_key)

\* C5 as amended: the touch maps to col 1, row 2 (4 * 500 / 1001 is below 2) and
\* the key pressed is keys[2][1].
C5_CellTwoOne ==
    C5_Scenario =>
        /\ GridCol(model_layout, x) = 1 /\ GridRow(model_layout, y) = 2
        /\ button_pressed = Resolve(model_layout.keys[2 + 1][1 + 1], percentage_key)
        /\ Sent(out) = <<KeyPress(model_layout.keys[2 + 1][1 + 1])>>

C5_Witness ==
    C5_Scenario /\ failed = {} /\ button_pressed \in held

\* A lighting-on command, a successful grab, an ungrab.
IsLightOn(c) == c.sink = "i2c" /\ c.arg = BRIGHT_VAL
IsGrabbed(c) == c.sink = "grab" /\ c.val = 1 /\ c.ok
IsUngrab(c)  == c.sink = "grab" /\ c.val = 0

\* C6: every lighting-on command is preceded by a successful grab with no ungrab
\* in between, the touchpad is grabbed when it is issued, and an activation whose
\* grab fails issues no lighting-on command.
C6_LightOnlyWhileGrabbed ==
    /\ \A i \in 1..Len(out) :
          IsLightOn(out[i]) =>
              \E j \in 1..(i - 1) :
                  /\ IsGrabbed(out[j])
                  /\ \A k \in (j + 1)..(i - 1) : ~IsUngrab(out[k])
    /\ pc \in {"act_i2c1", "act_i2c2"} => grabbed
    /\ (ToggleDone /\ numlock /\ \E j \in 1..Len(out) :
                                     out[j].sink = "grab" /\ out[j].val = 1 /\ ~out[j].ok)
          => \A i \in 1..Len(out) : ~IsLightOn(out[i])

\* An activation has issued its two lighting-on commands.
C6_Witness ==
    ToggleDone /\ numlock /\ Len(SelectSeq(out, IsLightOn)) = 2 /\ grabbed

\* C7 as stated: between events, also after a failed key send, button_pressed is
\* a key whose press was emitted and that has not been released.
C7_ActiveKeyIsHeld ==
    (pc = "loop" /\ Active) => button_pressed \in held

\* C7 as amended: between events, and as long as no key send has failed,
\* button_pressed is a key whose press was emitted and that has not been released.
C7_ActiveKeyIsHeldUnlessFailed ==
    (pc = "loop" /\ Active /\ "key" \notin failed) => button_pressed \in held

C7_Witness ==
    pc = "loop" /\ Active /\ failed = {} /\ button_pressed \in held /\ ev.kind = "down"

\* C8: a finger-down taken while a key is active is ignored: no sink call, the
\* active key, numlock and the position in the handler are as before.
C8_SecondFingerDownIgnored ==
    (ev.kind = "down" /\ ev.bp # None) =>
        /\ pc = "loop"
        /\ out = <<>>
        /\ button_pressed = ev.bp
        /\ numlock = ev.nl

\* A finger-down in the numlock corner was ignored because a key was active.
C8_Witness ==
    ev.kind = "down" /\ ev.bp # None /\ NumlockCorner(x, y) /\ pc = "loop"

\* C9: while numlock is False a finger-down outside both corners makes no sink call
\* and leaves button_pressed unset; a grid key is sent only while numlock is True.
C9_GridNeedsNumlock ==
    /\ (ev.kind = "down" /\ ~ev.nl /\ ~NumlockCorner(x, y) /\ ~CalculatorCorner(x, y))
          => (pc = "loop" /\ out = <<>> /\ button_pressed = None /\ ~numlock)
    /\ pc \in {"press_shift", "press_key"} => numlock

C9_Witness ==
    /\ ev.kind = "down" /\ ~ev.nl /\ ~NumlockCorner(x, y) /\ ~CalculatorCorner(x, y)
    /\ pc = "loop" /\ ~IndexError(model_layout, GridRow(model_layout, y), GridCol(model_layout, x))
    /\ GridRow(model_layout, y) >= 0

\* C10: two toggles return numlock to its value before the first; while no sink
\* call has failed, in the event loop grab is called only when the touchpad is not
\* grabbed and ungrab only when it is (the calls alternate, grab first), and
\* between events numlock is True exactly when the last of them was a grab.
C10_TogglesPaired ==
    /\ (pc = "loop" /\ Len(tog) = 2) => (numlock = tog[1] /\ tog[2] = ~tog[1])
    /\ (pc = "act_grab" /\ failed = {}) => ~grabbed
    /\ (pc = "deact_ungrab" /\ caller = "process_events" /\ failed = {}) => grabbed
    /\ (pc = "loop" /\ failed = {}) => (numlock <=> grabbed)

\* Two toggles in a row have completed without a failure.
C10_Witness ==
    ToggleDone /\ Len(tog) = 2 /\ failed = {} /\ ~numlock /\ ~grabbed /\ Len(out) = 3

\* The position lies in the top-right corner, in the top-left corner.
InTopRight == 100 * x > 95 * maxx /\ 100 * y < 9 * maxy
InTopLeft  == 100 * x < 6 * maxx /\ 100 * y < 7 * maxy

\* The program is in the event loop or in one of its handlers.
InLoop ==
    /\ pc \notin {"cleanup_check", "cleanup_close", "cleanup_exit", "exited"}
    /\ caller = "process_events"

\* C11: a failed side effect of a toggle does not undo the flip of numlock and
\* does not end the event loop, and after a failed lighting command a grid
\* finger-down still sends its key press and the finger-up its release.
C11_FailureDoesNotAbort ==
    /\ (ev.kind = "down" /\ ev.bp = None /\ InTopRight) => numlock = ~ev.nl
    /\ ev.kind \in {"pos", "down", "up"} => InLoop
    /\ (pc = "loop" /\ "i2c" \in failed /\ ev.kind = "down" /\ ev.nl /\ ev.bp = None
          /\ ~InTopRight /\ ~InTopLeft /\ GridRow(model_layout, y) >= 0
          /\ ~IndexError(model_layout, GridRow(model_layout, y), GridCol(model_layout, x)))
          => /\ button_pressed # None
             /\ Len(out) >= 1 /\ Sent(out)[Len(out)] = KeyPress(button_pressed)
    /\ (pc = "loop" /\ "i2c" \in failed /\ ev.kind = "up" /\ ev.bp # None)
          => Len(out) >= 1 /\ Sent(out)[Len(out)] = KeyRelease(ev.bp)

\* A key has been pressed and released after a lighting command failed.
C11_Witness ==
    /\ pc = "loop" /\ "i2c" \in failed /\ numlock
    /\ ev.kind = "up" /\ ev.bp # None /\ ev.bp \notin held

\* C12: a finger-down in the top-right corner with no key active toggles numlock
\* whatever the layout and whatever numlock was; it sends no key but NUMLOCK and
\* leaves button_pressed unset.  (960, 30) lies in that corner.
C12_NumlockCornerToggles ==
    /\ NumlockCorner(960, 30)
    /\ (ev.kind = "down" /\ ev.bp = None /\ InTopRight) =>
          /\ numlock = ~ev.nl
          /\ button_pressed = None
          /\ pc \in {"loop", "act_key", "act_grab", "act_i2c1", "act_i2c2",
                     "deact_key", "deact_ungrab", "deact_i2c"}
          /\ \A i \in 1..Len(out) : out[i].sink = "key" => out[i].arg = KEY_NUMLOCK

\* A touch in the corner, over a grid cell of the layout, has switched numlock off.
C12_Witness ==
    /\ ev.kind = "down" /\ ev.bp = None /\ InTopRight /\ y = 40 /\ pc = "loop"
    /\ ev.nl /\ ~numlock /\ model_layout = LayoutB

\* C13: a finger-down in the top-left corner with no key active never looks up
\* the grid and never sets button_pressed; with numlock False it sends a calculator
\* key press, then a calculator key release, with numlock True nothing.
C13_CalculatorCorner ==
    (ev.kind = "down" /\ ev.bp = None /\ InTopLeft) =>
        /\ button_pressed = None
        /\ numlock = ev.nl
        /\ pc \in {"loop", "calc_press", "calc_release"}
        /\ ev.nl => (pc = "loop" /\ out = <<>>)
        /\ (~ev.nl /\ pc = "loop")
              => Sent(out) = <<KeyPress(calculator_key), KeyRelease(calculator_key)>>

\* The calculator key was tapped at (20, 20).
C13_Witness ==
    /\ ev.kind = "down" /\ ev.bp = None /\ x = 20 /\ y = 20 /\ ~ev.nl
    /\ pc = "loop" /\ Len(out) = 2 /\ failed = {}

\* C14: a finger-up with no key active makes no sink call and changes nothing; a
\* finger-up with a key active ends with the release of that key and clears
\* button_pressed.
C14_FingerUp ==
    /\ (ev.kind = "up" /\ ev.bp = None) =>
          (pc = "loop" /\ out = <<>> /\ button_pressed = None /\ numlock = ev.nl)
    /\ (pc = "loop" /\ ev.kind = "up" /\ ev.bp # None) =>
          /\ button_pressed = None
          /\ Len(out) >= 1 /\ Sent(out)[Len(out)] = KeyRelease(ev.bp)
          /\ ev.bp # percentage_key => Len(out) = 1

\* The finger was lifted after a touch in the numlock corner.
C14_Witness ==
    ev.kind = "up" /\ ev.bp = None /\ InTopRight /\ numlock /\ pc = "loop"

\* Every sink call since the last event succeeded.
AllOk == \A i \in 1..Len(out) : out[i].ok

\* The sink calls of a deactivation, of an activation.
DeactivationCalls ==
    <<KeyRelease(KEY_NUMLOCK), <<"grab", "touchpad", 0>>, <<"i2c", OFF_VAL, 0>> >>
ActivationCalls ==
    <<KeyPress(KEY_NUMLOCK), <<"grab", "touchpad", 1>>, <<"i2c", BRIGHT_VAL, 0>>,
      <<"i2c", BRIGHT_VAL, 0>> >>

\* C15: when no sink call fails an activation calls grab and then sends exactly two
\* lighting-on commands, a deactivation calls ungrab and then sends exactly one
\* lighting-off command; no lighting command comes before the grab or ungrab.
C15_TransitionOrder ==
    /\ (ToggleDone /\ AllOk) =>
          Sent(out) = IF numlock THEN ActivationCalls ELSE DeactivationCalls
    /\ (pc = "cleanup_close" /\ ~closed /\ numlock /\ AllOk) => Sent(out) = DeactivationCalls

\* An activation has made its four calls, all with success.
C15_Witness ==
    ToggleDone /\ AllOk /\ numlock /\ Len(out) = 4 /\ light = "on"

\* C16: while numlock is True a finger-down outside both corners whose row is
\* negative, or whose row or column lies outside the key grid, makes no sink call
\* and leaves button_pressed unset and numlock True; the loop goes on.
C16_DeadZone ==
    LET row == GridRow(model_layout, y)
        col == GridCol(model_layout, x)
        outside == IF row < 0 \/ row >= Len(model_layout.keys) THEN TRUE
                   ELSE col >= Len(model_layout.keys[row + 1])
    IN  (ev.kind = "down" /\ ev.nl /\ ev.bp = None /\ ~InTopRight /\ ~InTopLeft /\ outside)
           => (pc = "loop" /\ out = <<>> /\ button_pressed = None /\ numlock)

\* A touch above the first row of the layout with a top offset was ignored.
C16_Witness ==
    /\ ev.kind = "down" /\ ev.nl /\ ev.bp = None /\ pc = "loop"
    /\ model_layout = LayoutB /\ x = 500 /\ y = 20 /\ GridRow(model_layout, y) < 0

\* C17: whenever button_pressed is set numlock is True, and an event taken while
\* a key is active leaves numlock as it was.
C17_ActiveNeedsNumlock ==
    /\ Active => numlock
    /\ (ev.kind \in {"pos", "down", "up"} /\ ev.bp # None) => (ev.nl /\ numlock)

\* A key is active and the finger has moved into the numlock corner.
C17_Witness ==
    Active /\ numlock /\ pc = "loop" /\ ev.kind = "down" /\ ev.bp # None /\ InTopRight

\* C18: as long as no key send has failed, between events the grid keys and SHIFT
\* held down on the virtual keyboard are none when button_pressed is unset,
\* button_pressed alone when it is no percentage key, SHIFT and button_pressed
\* when it is the percentage key.
C18_HeldKeys ==
    (pc = "loop" /\ "key" \notin failed) =>
        held \ {KEY_NUMLOCK} =
            IF button_pressed = None THEN {}
            ELSE IF button_pressed = percentage_key THEN {KEY_LEFTSHIFT, button_pressed}
            ELSE {button_pressed}

\* The percentage key was released and another key is now held.
C18_Witness ==
    /\ pc = "loop" /\ "key" \notin failed /\ button_pressed = percentage_key
    /\ held = {KEY_NUMLOCK, KEY_LEFTSHIFT, percentage_key} /\ percentage_key # KEY_5

-----------------------------------------------------------------------------
\* The column computation over the whole x range of the touchpad.

\* The largest number of columns of the layouts drawn.
MaxCols == 6

\* A layout of one row and c columns; its first key is the one replaced by percentage_key.
GridLayout(c) ==
    [cols |-> c, rows |-> 1, top_offset10 |-> 0,
     keys |-> << [i \in 1..c |-> IF i = 1 THEN KEY_5 ELSE "KEY_KP1"] >>]

GridLayouts == {GridLayout(c) : c \in 1..MaxCols}

\* The numpad is on and the finger lies anywhere in the x range the touchpad reports.
InitGrid ==
    /\ model_layout \in GridLayouts
    /\ percentage_key \in PercentageKeys
    /\ numlock = TRUE
    /\ button_pressed = None
    /\ x \in 0..maxx
    /\ y \in Ys
    /\ pc = "loop"
    /\ caller = "process_events"
    /\ ctx = "try"
    /\ inHandler = FALSE
    /\ signalled = FALSE
    /\ held = {KEY_NUMLOCK}
    /\ grabbed = TRUE
    /\ light = "on"
    /\ closed = FALSE
    /\ out = <<>>
    /\ failed = {}
    /\ nfail = 0
    /\ ev = [kind |-> "pos", nl |-> TRUE, bp |-> None]
    /\ tog = <<FALSE>>
    /\ deactRuns = 0

\* The finger goes down and up where it lies. The calculator is launched only
\* while numlock is False, which here needs a touch in the top-right corner.
NextGrid ==
    \/ FingerUp \/ UpShift \/ UpKey \/ UpClear
    \/ FingerDown \/ PressShift \/ PressKey
    \/ ActivateKey \/ ActivateGrab \/ ActivateLight1 \/ ActivateLight2
    \/ DeactivateKey \/ DeactivateUngrab \/ DeactivateLight

SpecGrid == InitGrid /\ [][NextGrid]_vars

\* C19: for every x in 0..maxx and every cols in 1..MaxCols the computed column
\* lies in 0..cols-1, x = maxx falls in the last column, and a finger-down in a
\* row of the grid, outside both corners, with numlock True and no key active,
\* always finds a key.
C19_ColumnInGrid ==
    /\ GridCol(model_layout, x) \in 0..(model_layout.cols - 1)
    /\ x = maxx => GridCol(model_layout, x) = model_layout.cols - 1
    /\ (/\ ev.kind = "down" /\ ev.nl /\ ev.bp = None
        /\ ~InTopRight /\ ~InTopLeft
        /\ GridRow(model_layout, y) \in 0..(model_layout.rows - 1))
          => (button_pressed # None /\ pc \in {"press_shift", "press_key", "loop"})

\* A touch at x = maxx pressed the key of the last of several columns.
C19_Witness ==
    /\ x = maxx /\ ~InTopRight /\ model_layout.cols > 1
    /\ ev.kind = "down" /\ ev.nl /\ ev.bp = None
    /\ pc = "loop" /\ button_pressed = "KEY_KP1" /\ "KEY_KP1" \in held

====
